---- MODULE Spec2Model ----
(***************************************************************************)
(* Model of the workflow engine of hana-perf: the persisted Execution      *)
(* Context (workflow/core/state.py), the State Store operations on it and  *)
(* the step invocations built on them (workflow/steps, workflow/tools).    *)
(*                                                                         *)
(* Python values are modelled as follows.  A dict is a function whose      *)
(* DOMAIN is its key set, so a missing key is a key outside the DOMAIN.    *)
(* Strings are strings; None is the token None.  A timestamp is the text   *)
(* isoformat(n) of the n-th reading of the clock.  An Enum member is       *)
(* written by its member name ("RUNNING") and its .value is looked up in   *)
(* the enum ("running").                                                   *)
(***************************************************************************)
EXTENDS Integers, Sequences, FiniteSets, TLC

VARIABLES
    fs,      \* logs/workflows/: run id -> parsed content of its state.json
    clock,   \* number of State Store mutations so far (datetime.now())
    last,    \* the last State Store call: its arguments, outcome, pre-state
    completions,  \* step names passed to complete_step since the run's create
    reply,   \* the last tool invocation: the tool, its outcome, the files before
    loaded,  \* process -> the context it has loaded and not saved yet
    registry \* the StepRegistry singleton: _steps and _workflows

vars == <<fs, clock, last, completions, reply, loaded, registry>>

----------------------------------------------------------------------------
(* Bounds *)

\* State Store calls explored per behaviour of Spec.
MaxClock == 5

\* Readings of the clock after which SpecRun starts no further invocation.
MaxRunClock == 12

\* Readings of the clock after which SpecAll makes no further call.
MaxAllClock == 3

\* Readings of the clock after which no process of SpecRace enters a call.
MaxRaceClock == 3

\* the clock up to which runs are driven while the catalog is edited
MaxCatalogClock == 4

----------------------------------------------------------------------------
(* Python values *)

None == "<None>"

EmptyDict == <<>>

\* d[k] = v
Put(d, k, v) == [x \in (DOMAIN d) \cup {k} |-> IF x = k THEN v ELSE d[x]]

\* d.update(o)
Update(d, o) ==
    [x \in (DOMAIN d) \cup (DOMAIN o) |-> IF x \in DOMAIN o THEN o[x] ELSE d[x]]

\* d.get(k, default)
Get(d, k, default) == IF k \in DOMAIN d THEN d[k] ELSE default

\* bool(s) of an Optional[str]
TruthyStr(s) == s # None /\ s # ""

\* bool(d) of a dict
TruthyDict(d) == DOMAIN d # {}

\* datetime.now().isoformat() at the n-th reading of the clock
isoformat(n) == "T" \o ToString(n)

\* f"{n:02d}"
Fmt02d(n) == IF n < 10 THEN "0" \o ToString(n) ELSE ToString(n)

----------------------------------------------------------------------------
(* workflow/core/state.py *)

WorkflowStatus ==
    [PENDING   |-> "pending",
     RUNNING   |-> "running",
     COMPLETED |-> "completed",
     FAILED    |-> "failed",
     CANCELLED |-> "cancelled"]

StepStatus ==
    [PENDING   |-> "pending",
     RUNNING   |-> "running",
     COMPLETED |-> "completed",
     SKIPPED   |-> "skipped",
     FAILED    |-> "failed"]

\* asdict(StepResult(step_name, status, started_at)) with the dataclass
\* defaults, the status written by value
StepResult(step_name, status, started_at) ==
    [step_name          |-> step_name,
     status             |-> StepStatus[status],
     started_at         |-> started_at,
     completed_at       |-> None,
     output_data        |-> EmptyDict,
     html_fragment_path |-> None,
     error              |-> None]

\* WorkflowContext(...) with the dataclass defaults
WorkflowContext(workflow_id, workflow_type, status, created_at, updated_at, params, steps, current_step_index) ==
    [workflow_id        |-> workflow_id,
     workflow_type      |-> workflow_type,
     status             |-> status,
     created_at         |-> created_at,
     updated_at         |-> updated_at,
     params             |-> params,
     steps              |-> steps,
     current_step_index |-> current_step_index,
     step_results       |-> EmptyDict,
     global_data        |-> EmptyDict,
     html_fragments     |-> <<>>,
     output_path        |-> None]

\* WorkflowContext.to_dict: the status member is replaced by its value
to_dict(context) == [context EXCEPT !.status = WorkflowStatus[context.status]]

\* from_dict that leaves step_results to its default_factory
from_dict_no_results(data) ==
    [data EXCEPT !.status =
        CHOOSE m \in DOMAIN WorkflowStatus : WorkflowStatus[m] = data.status,
                 !.step_results = EmptyDict]

\* WorkflowContext.from_dict: WorkflowStatus(data["status"]) is the member
\* with that value
from_dict(data) ==
    [data EXCEPT !.status =
        CHOOSE m \in DOMAIN WorkflowStatus : WorkflowStatus[m] = data.status]

\* WorkflowState.state_file.exists()
exists(files, workflow_id) == workflow_id \in DOMAIN files

\* load that takes the steps of the run from the catalog's workflow definition
load_catalog(files, workflow_id) ==
    LET context == from_dict(files[workflow_id])
    IN  IF context.workflow_type \in DOMAIN registry.workflows
        THEN [context EXCEPT
                 !.steps = registry.workflows[context.workflow_type].steps]
        ELSE context

\* WorkflowState.load, for a run whose state file exists
load(files, workflow_id) == from_dict(files[workflow_id])

\* WorkflowState._save
save(files, workflow_id, context) == Put(files, workflow_id, to_dict(context))

\* WorkflowState.fragments_dir / f"{index:02d}_{step_name}.html"
fragment_path(workflow_id, index, step_name) ==
    "logs/workflows/" \o workflow_id \o "/fragments/"
        \o Fmt02d(index) \o "_" \o step_name \o ".html"

\* create with the run left pending instead of running
create_pending(workflow_id, workflow_type, params, steps, now) ==
    WorkflowContext(workflow_id, workflow_type, "PENDING", now, now,
                    params, steps, 0)

\* WorkflowState.create: the context it builds
create(workflow_id, workflow_type, params, steps, now) ==
    WorkflowContext(workflow_id, workflow_type, "RUNNING", now, now,
                    params, steps, 0)

\* WorkflowState.set_global_data, on the loaded context
set_global_data(context, key, value, now) ==
    [context EXCEPT !.global_data = Put(@, key, value),
                    !.updated_at  = now]

\* start_step that marks the existing record running instead of replacing it
start_step_keeps(context, step_name, now) ==
    LET old == Get(context.step_results, step_name,
                   StepResult(step_name, "RUNNING", now))
        r1  == Put(old, "status", StepStatus["RUNNING"])
        r2  == Put(r1, "started_at", now)
    IN  [context EXCEPT
            !.step_results = Put(@, step_name, r2),
            !.updated_at   = now]

\* start_step that keeps no Step Result but the one it writes
start_step_alone(context, step_name, now) ==
    [context EXCEPT
        !.step_results = Put(EmptyDict, step_name,
                             StepResult(step_name, "RUNNING", now)),
        !.updated_at   = now]

\* WorkflowState.start_step, on the loaded context
start_step(context, step_name, now) ==
    [context EXCEPT
        !.step_results = Put(@, step_name, StepResult(step_name, "RUNNING", now)),
        !.updated_at   = now]

\* complete_step, "合并输出数据到全局数据", replacing the bag by the output
merge_output_replaces(global_data, output_data) ==
    IF TruthyDict(output_data) THEN output_data ELSE global_data

\* complete_step, "合并输出数据到全局数据": the global_data after the merge
merge_output(global_data, output_data) ==
    IF TruthyDict(output_data)
    THEN Update(global_data, output_data)
    ELSE global_data

\* complete_step, "检查是否完成所有步骤", completing only a run still running
status_after_advance_running(status, index, steps) ==
    IF index >= Len(steps) /\ status = "RUNNING" THEN "COMPLETED" ELSE status

\* complete_step, "检查是否完成所有步骤": the status once the cursor is index
status_after_advance(status, index, steps) ==
    IF index >= Len(steps) THEN "COMPLETED" ELSE status

\* WorkflowState.complete_step, on the loaded context
complete_step(context, step_name, output_data, html_fragment, now) ==
    LET old   == Get(context.step_results, step_name,
                     [step_name  |-> step_name,
                      status     |-> StepStatus["RUNNING"],
                      started_at |-> now])
        r1    == Put(old, "status", StepStatus["COMPLETED"])
        r2    == Put(r1, "completed_at", now)
        r3    == Put(r2, "output_data",
                     IF TruthyDict(output_data) THEN output_data ELSE EmptyDict)
        path  == fragment_path(context.workflow_id,
                               Len(context.html_fragments) + 1, step_name)
        r4    == IF TruthyStr(html_fragment)
                 THEN Put(r3, "html_fragment_path", path) ELSE r3
        frags == IF TruthyStr(html_fragment)
                 THEN Append(context.html_fragments, path)
                 ELSE context.html_fragments
        index == context.current_step_index + 1
    IN  [context EXCEPT
            !.step_results       = Put(@, step_name, r4),
            !.html_fragments     = frags,
            !.global_data        = merge_output(@, output_data),
            !.current_step_index = index,
            !.updated_at         = now,
            !.status             = status_after_advance(@, index, context.steps)]

\* fail_step that skips the failing step
fail_step_skips(context, step_name, error, now) ==
    LET old == Get(context.step_results, step_name,
                   [step_name  |-> step_name,
                    started_at |-> now])
        r1  == Put(old, "status", StepStatus["FAILED"])
        r2  == Put(r1, "completed_at", now)
        r3  == Put(r2, "error", error)
    IN  [context EXCEPT
            !.step_results       = Put(@, step_name, r3),
            !.status             = "FAILED",
            !.current_step_index = @ + 1,
            !.updated_at         = now]

\* WorkflowState.fail_step, on the loaded context
fail_step(context, step_name, error, now) ==
    LET old == Get(context.step_results, step_name,
                   [step_name  |-> step_name,
                    started_at |-> now])
        r1  == Put(old, "status", StepStatus["FAILED"])
        r2  == Put(r1, "completed_at", now)
        r3  == Put(r2, "error", error)
    IN  [context EXCEPT
            !.step_results = Put(@, step_name, r3),
            !.status       = "FAILED",
            !.updated_at   = now]

\* WorkflowState.set_output_path, on the loaded context
set_output_path(context, path, now) ==
    [context EXCEPT !.output_path = path, !.updated_at = now]

\* get_current_step that returns the last step of the list
get_current_step_last(context) ==
    IF context.current_step_index >= Len(context.steps)
    THEN None
    ELSE context.steps[Len(context.steps)]

\* WorkflowState.get_current_step, on the loaded context
get_current_step(context) ==
    IF context.current_step_index >= Len(context.steps)
    THEN None
    ELSE context.steps[context.current_step_index + 1]

----------------------------------------------------------------------------
(* workflow/core/registry.py: the built-in definitions *)

\* StepDefinition(...) as _init_default_definitions builds them;
\* generates_html keeps its default
StepDefinition(name, mcp_tool_name, inputs, outputs, order) ==
    [name           |-> name,
     mcp_tool_name  |-> mcp_tool_name,
     inputs         |-> inputs,
     outputs        |-> outputs,
     generates_html |-> TRUE,
     order          |-> order]

\* registry._steps after _init_default_definitions
StepDefinitions ==
    [init_workflow |->
        StepDefinition("init_workflow", "init_scene_workflow", <<>>,
            <<"workflow_id", "log_path", "timestamp", "time_window">>, 1),
     search_files |->
        StepDefinition("search_files", "search_events", <<"log_path">>,
            <<"events_files">>, 2),
     extract_logs |->
        StepDefinition("extract_logs", "extract_logs",
            <<"events_files", "timestamp", "time_window">>,
            <<"file_logs_map", "total_logs", "files_with_logs">>, 3),
     analyze_timeline |->
        StepDefinition("analyze_timeline", "analyze_timeline",
            <<"file_logs_map">>, <<"timeline_events", "activity_flow">>, 4),
     generate_analysis |->
        StepDefinition("generate_analysis", "generate_analysis",
            <<"file_logs_map", "timeline_events">>, <<"analysis_html">>, 5),
     finalize_report |->
        StepDefinition("finalize_report", "finalize_report",
            <<"workflow_id">>, <<"report_path">>, 6)]

\* the built-in steps with extract_logs listed before search_files
DefaultSteps_extract_first ==
    <<"init_workflow", "extract_logs", "search_files", "analyze_timeline",
      "generate_analysis", "finalize_report">>

\* registry._workflows["scene_analysis"].steps
DefaultSteps ==
    <<"init_workflow", "search_files", "extract_logs", "analyze_timeline",
      "generate_analysis", "finalize_report">>

\* WorkflowDefinition(...), by the fields the registry reads; each parameter
\* of the schema by its type
WorkflowDefinition(name, steps, params) ==
    [name |-> name, steps |-> steps, params |-> params]

\* the params of the scene_analysis workflow _init_default_definitions
\* registers
SceneAnalysisParams ==
    [log_path |-> "str", timestamp |-> "str", time_window |-> "float"]

\* A dict whose iteration order matters is the sequence of its keys in
\* insertion order together with the values: d[k] = v keeps the place of a key
\* already present and appends a new one.
OrderedPut(d, k, v) ==
    [keys |-> IF k \in DOMAIN d.at THEN d.keys ELSE Append(d.keys, k),
     at   |-> Put(d.at, k, v)]

\* list(d.values())
Values(d) == [i \in 1..Len(d.keys) |-> d.at[d.keys[i]]]

\* StepRegistry.__new__: the catalog after _init_default_definitions
DefaultRegistry ==
    [steps     |-> [keys |-> DefaultSteps, at |-> StepDefinitions],
     workflows |-> [scene_analysis |->
                       WorkflowDefinition("scene_analysis", DefaultSteps,
                                          SceneAnalysisParams)]]

\* register_step that keeps a definition already registered
register_step_keeps(catalog, step) ==
    IF step.name \in DOMAIN catalog.steps.at
    THEN catalog
    ELSE [catalog EXCEPT !.steps = OrderedPut(@, step.name, step)]

\* StepRegistry.register_step
register_step(catalog, step) ==
    [catalog EXCEPT !.steps = OrderedPut(@, step.name, step)]

\* StepRegistry.register_workflow
register_workflow(catalog, workflow) ==
    [catalog EXCEPT !.workflows = Put(@, workflow.name, workflow)]

\* None where a definition is expected: a record, as the definitions are
NoDefinition == [name |-> None]

\* StepRegistry.get_step
get_step(catalog, name) == Get(catalog.steps.at, name, NoDefinition)

\* StepRegistry.get_workflow
get_workflow(catalog, name) == Get(catalog.workflows, name, NoDefinition)

\* the loop of get_workflow_steps over the step names still to resolve
RECURSIVE resolve(_, _)
resolve(catalog, names) ==
    IF names = <<>>
    THEN <<>>
    ELSE LET step == get_step(catalog, Head(names))
         IN  IF step # NoDefinition
             THEN <<step>> \o resolve(catalog, Tail(names))
             ELSE resolve(catalog, Tail(names))

\* get_workflow_steps that gives up at the first name it cannot resolve
get_workflow_steps_strict(catalog, workflow_name) ==
    LET workflow == get_workflow(catalog, workflow_name)
    IN  IF workflow = NoDefinition
        THEN <<>>
        ELSE IF \E i \in 1..Len(workflow.steps) :
                    get_step(catalog, workflow.steps[i]) = NoDefinition
        THEN <<>>
        ELSE resolve(catalog, workflow.steps)

\* StepRegistry.get_workflow_steps
get_workflow_steps(catalog, workflow_name) ==
    LET workflow == get_workflow(catalog, workflow_name)
    IN  IF workflow = NoDefinition
        THEN <<>>
        ELSE resolve(catalog, workflow.steps)

\* sorted(items, key=lambda s: s.order): the sort is stable, so items of
\* equal order keep the order they have in items
RECURSIVE sorted_by_order(_)
sorted_by_order(items) ==
    IF items = <<>>
    THEN <<>>
    ELSE LET least == CHOOSE o \in { items[i].order : i \in 1..Len(items) } :
                          \A i \in 1..Len(items) : o <= items[i].order
             IsLeast(d) == d.order = least
             IsRest(d)  == d.order # least
         IN  SelectSeq(items, IsLeast) \o sorted_by_order(SelectSeq(items, IsRest))

\* StepRegistry.list_steps
list_steps(catalog) == sorted_by_order(Values(catalog.steps))

----------------------------------------------------------------------------
(* Inputs of the State Store calls *)

\* the run id of the WorkflowState object under test: the one
\* InitWorkflowStep.__init__ makes of timestamp "01-01 10:00:00.000000" at
\* 10:15:00
RunId == "scene_01-01_100000000000_101500"

StepNames == {"A", "B"}

StepLists == {<<"A">>, <<"A", "B">>}

Params ==
    [log_path    |-> "/logs",
     timestamp   |-> "01-01 10:00:00.000000",
     time_window |-> "20.0"]

\* (output_data, html_fragment) pairs passed to complete_step
CompleteArgs ==
    { <<EmptyDict, None>>,
      <<[x |-> "1"], "<section/>">>,
      <<[x |-> "2", z |-> "3"], None>> }

Errors == {"disk error"}

GlobalKeys == {"y"}

GlobalValues == {"1"}

OutputPaths == {"/abs/logs/workflows/" \o RunId \o "/report.html"}

----------------------------------------------------------------------------
(* The record of the last State Store call *)

\* op: the operation; args: its arguments by name; raised: the exception it
\* raised or None; pre: the files before the call; at: the clock it read
CallAt(op, args, raised, files, at) ==
    [op     |-> op,
     args   |-> args,
     raised |-> raised,
     pre    |-> files,
     at     |-> at]

\* a call made in the current state
Call(op, args, raised) == CallAt(op, args, raised, fs, clock)

NoArgs == EmptyDict

----------------------------------------------------------------------------
(* State Store calls on the run RunId *)

Init ==
    /\ fs = EmptyDict
    /\ clock = 0
    /\ completions = <<>>
    /\ last = [op |-> "init", args |-> NoArgs, raised |-> None,
               pre |-> EmptyDict, at |-> 0]
    /\ reply = [tool |-> "init", kind |-> None, before |-> EmptyDict]
    /\ loaded = EmptyDict
    /\ registry = DefaultRegistry

\* a call that writes the context c
Saved(id, c, call) ==
    /\ fs' = save(fs, id, c)
    /\ clock' = clock + 1
    /\ last' = call
    /\ UNCHANGED reply

\* a call that creates the state it does not find
NotSaved_creates(call) ==
    /\ fs' = IF exists(fs, RunId)
             THEN fs
             ELSE save(fs, RunId,
                       create(RunId, "scene_analysis", Params, <<"A">>,
                              isoformat(clock)))
    /\ UNCHANGED <<clock, reply>>
    /\ last' = call

\* a call that raises or returns without writing
NotSaved(call) ==
    /\ UNCHANGED <<fs, clock, reply>>
    /\ last' = call

Create ==
    /\ clock < MaxClock
    /\ \E steps \in StepLists :
          Saved(RunId,
                create(RunId, "scene_analysis", Params, steps, isoformat(clock)),
                Call("create", [workflow_type |-> "scene_analysis",
                                params |-> Params, steps |-> steps], None))
    /\ completions' = <<>>

StartStep ==
    /\ clock < MaxClock
    /\ \E step_name \in StepNames :
          LET call(raised) == Call("start_step", [step_name |-> step_name], raised)
          IN  IF exists(fs, RunId)
              THEN Saved(RunId,
                         start_step(load(fs, RunId), step_name, isoformat(clock)),
                         call(None))
              ELSE NotSaved(call("ValueError"))
    /\ UNCHANGED completions

CompleteStep ==
    /\ clock < MaxClock
    /\ \E step_name \in StepNames, a \in CompleteArgs :
          LET call(raised) ==
                  Call("complete_step",
                       [step_name |-> step_name, output_data |-> a[1],
                        html_fragment |-> a[2]], raised)
          IN  IF exists(fs, RunId)
              THEN /\ Saved(RunId,
                            complete_step(load(fs, RunId), step_name, a[1], a[2],
                                          isoformat(clock)),
                            call(None))
                   /\ completions' = Append(completions, step_name)
              ELSE /\ NotSaved(call("ValueError"))
                   /\ UNCHANGED completions

FailStep ==
    /\ clock < MaxClock
    /\ \E step_name \in StepNames, error \in Errors :
          LET call(raised) ==
                  Call("fail_step", [step_name |-> step_name, error |-> error],
                       raised)
          IN  IF exists(fs, RunId)
              THEN Saved(RunId,
                         fail_step(load(fs, RunId), step_name, error,
                                   isoformat(clock)),
                         call(None))
              ELSE NotSaved(call("ValueError"))
    /\ UNCHANGED completions

SetGlobalData ==
    /\ clock < MaxClock
    /\ \E key \in GlobalKeys, value \in GlobalValues :
          LET call == Call("set_global_data", [key |-> key, value |-> value], None)
          IN  IF exists(fs, RunId)
              THEN Saved(RunId,
                         set_global_data(load(fs, RunId), key, value,
                                         isoformat(clock)),
                         call)
              ELSE NotSaved(call)
    /\ UNCHANGED completions

SetOutputPath ==
    /\ clock < MaxClock
    /\ \E path \in OutputPaths :
          LET call == Call("set_output_path", [path |-> path], None)
          IN  IF exists(fs, RunId)
              THEN Saved(RunId,
                         set_output_path(load(fs, RunId), path, isoformat(clock)),
                         call)
              ELSE NotSaved(call)
    /\ UNCHANGED completions

Next ==
    /\ \/ Create
       \/ StartStep
       \/ CompleteStep
       \/ FailStep
       \/ SetGlobalData
       \/ SetOutputPath
    /\ UNCHANGED <<loaded, registry>>

Spec == Init /\ [][Next]_vars

----------------------------------------------------------------------------
(* workflow/steps/base.py *)

\* Values held in params, global_data and output_data are written as the
\* text of the Python value; these are the ones bool() takes for false.
Falsy == {None, "", "0", "0.0", "False", "[]", "{}"}

\* a or b
Or(a, b) == IF a \notin Falsy THEN a ELSE b

\* BaseStep.get_input
get_input(context, key, default) == Get(context.global_data, key, default)

\* BaseStep.get_param
get_param(context, key, default) == Get(context.params, key, default)

\* BaseStep.validate_inputs: the keys it reports missing
validate_inputs(step_name, context) ==
    IF step_name \notin DOMAIN StepDefinitions
    THEN {}
    ELSE LET inputs == StepDefinitions[step_name].inputs
         IN  { inputs[i] : i \in
                 { j \in 1..Len(inputs) :
                     Or(get_input(context, inputs[j], None),
                        get_param(context, inputs[j], None)) = None } }

\* get_next_step_info without the check of WorkflowStatus.COMPLETED
get_next_step_info_progress(context) ==
    IF context.status = "FAILED"
    THEN [failed |-> TRUE, step_results |-> context.step_results]
    ELSE [completed       |-> FALSE,
          current_step    |-> get_current_step(context),
          progress        |-> ToString(context.current_step_index + 1) \o "/"
                                \o ToString(Len(context.steps)),
          remaining_steps |-> SubSeq(context.steps,
                                     context.current_step_index + 1,
                                     Len(context.steps)),
          global_data     |-> context.global_data]

\* WorkflowState.get_next_step_info, on the loaded context
get_next_step_info(context) ==
    IF context.status = "COMPLETED"
    THEN [completed |-> TRUE, output_path |-> context.output_path]
    ELSE IF context.status = "FAILED"
    THEN [failed |-> TRUE, step_results |-> context.step_results]
    ELSE [completed       |-> FALSE,
          current_step    |-> get_current_step(context),
          progress        |-> ToString(context.current_step_index + 1) \o "/"
                                \o ToString(Len(context.steps)),
          remaining_steps |-> SubSeq(context.steps,
                                     context.current_step_index + 1,
                                     Len(context.steps)),
          global_data     |-> context.global_data]

\* The report a step invocation returns, by what it says under "下一步":
\* whether it holds the message of a finished workflow, and the step it names
\* as the next one (None if it names none).
Report(terminal, next_step) == [terminal |-> terminal, next_step |-> next_step]

\* BaseStep._format_result, "添加下一步指引", from get_next_step_info()
format_result(next_info) ==
    IF "completed" \in DOMAIN next_info /\ next_info.completed
    THEN Report(TRUE, None)
    ELSE LET current_step == IF "current_step" \in DOMAIN next_info
                             THEN next_info.current_step ELSE ""
         IN  IF current_step \in DOMAIN StepDefinitions
             THEN Report(FALSE, current_step)
             ELSE Report(FALSE, None)

\* the text generate_analysis returns: the next step it names is fixed
generate_analysis_result == Report(FALSE, "finalize_report")

\* the text FinalizeReportStep.run returns: always "工作流已完成"
finalize_report_result == Report(TRUE, None)

\* what execute() did: the dict it returned, or the exception it raised
Returned(output_data) == [raised |-> None, output_data |-> output_data]

Raised(message) == [raised |-> message, output_data |-> EmptyDict]

\* SearchFilesStep.execute: the files found under log_path are the
\* environment's choice; stat() of a file that vanished raises
SearchFilesStep_execute(context) ==
    { Returned([events_files |-> "[]", files_count |-> "0",
                total_size |-> "0"]),
      Returned([events_files |-> "[events.log]", files_count |-> "1",
                total_size |-> "4096"]),
      Raised("[Errno 2] No such file or directory") }

\* the values of Falsy and of the inputs that are of type str
StrValues == {"", "'20'"}

\* time_window / 2: the exception it raises, or None
half(time_window) ==
    IF time_window \in StrValues
    THEN "unsupported operand type(s) for /: 'str' and 'int'"
    ELSE None

\* ExtractLogsStep.execute: time_window / 2 raises for a str; no file, no
\* logs; the lines matched in a file are the environment's choice
ExtractLogsStep_execute(context) ==
    IF half(get_param(context, "time_window", "20.0")) # None
    THEN { Raised(half(get_param(context, "time_window", "20.0"))) }
    ELSE IF get_input(context, "events_files", "[]") = "[]"
    THEN { Returned([file_logs_map |-> "{}", total_logs |-> "0",
                     files_with_logs |-> "0"]) }
    ELSE { Returned([file_logs_map |-> "{}", total_logs |-> "0",
                     files_with_logs |-> "0"]),
           Returned([file_logs_map |-> "{events.log: [line]}",
                     total_logs |-> "1", files_with_logs |-> "1"]) }

\* AnalyzeTimelineStep.execute: a line without a time of day gives no event
AnalyzeTimelineStep_execute(context) ==
    IF get_input(context, "file_logs_map", "{}") = "{}"
    THEN { Returned([timeline_events |-> "[]", activity_flow |-> "[]",
                     events_count |-> "0"]) }
    ELSE { Returned([timeline_events |-> "[]", activity_flow |-> "[]",
                     events_count |-> "0"]),
           Returned([timeline_events |-> "[event]", activity_flow |-> "[]",
                     events_count |-> "1"]) }

\* self.execute() of the BaseStep subclass whose step_name is given
execute(step_name, context) ==
    CASE step_name = "search_files"     -> SearchFilesStep_execute(context)
      [] step_name = "extract_logs"     -> ExtractLogsStep_execute(context)
      [] step_name = "analyze_timeline" -> AnalyzeTimelineStep_execute(context)

\* ReportBuilder.build (workflow/core/builder.py): the assembled document's
\* absolute path, or an I/O error
ReportBuilder_build(output_path) ==
    { Returned([report_path |-> "/abs/" \o output_path]),
      Raised("[Errno 28] No space left on device") }

----------------------------------------------------------------------------
(* Inputs of the tool invocations *)

LogPaths == {"/logs"}

Timestamps == {"01-01 10:00:00.000000"}

\* a float, and a str as a direct caller of init_scene_workflow can pass
TimeWindows == {"20.0", "'20'"}

\* datetime.now().strftime('%H%M%S') when a workflow is initialised
WallClockSeconds == {"101500"}

\* timestamp.replace(":", "").replace(" ", "_").replace(".", "")
safe_timestamp(timestamp) ==
    CASE timestamp = "01-01 10:00:00.000000" -> "01-01_100000000000"

\* InitWorkflowStep.__init__: the workflow id
scene_workflow_id(timestamp, hhmmss) ==
    "scene_" \o safe_timestamp(timestamp) \o "_" \o hhmmss

\* the workflow ids a caller passes to the tools
WorkflowIds ==
    { scene_workflow_id(t, s) : t \in Timestamps, s \in WallClockSeconds }

----------------------------------------------------------------------------
(* Tool invocations (workflow/tools/mcp_tools.py) *)

\* a rejection issued only after start_step has marked the step running
Rejected_started(tool, workflow_id, kind) ==
    /\ reply' = [tool |-> tool, workflow_id |-> workflow_id, kind |-> kind,
                 before |-> fs]
    /\ fs' = IF kind = "validation_failed"
             THEN save(fs, workflow_id,
                       start_step(load(fs, workflow_id),
                                  CHOOSE n \in DOMAIN StepDefinitions :
                                      StepDefinitions[n].mcp_tool_name = tool,
                                  isoformat(clock)))
             ELSE fs
    /\ UNCHANGED <<clock, last, completions>>

\* a rejection of a missing path issued only after the run has been created
Rejected_created(tool, workflow_id, kind) ==
    /\ reply' = [tool |-> tool, workflow_id |-> workflow_id, kind |-> kind,
                 before |-> fs]
    /\ fs' = IF kind = "path_missing"
             THEN save(fs, RunId,
                       create(RunId, "scene_analysis", Params, DefaultSteps,
                              isoformat(clock)))
             ELSE fs
    /\ UNCHANGED <<clock, last, completions>>

\* an invocation that returns an error text without calling the State Store
Rejected(tool, workflow_id, kind) ==
    /\ reply' = [tool |-> tool, workflow_id |-> workflow_id, kind |-> kind,
                 before |-> fs]
    /\ UNCHANGED <<fs, clock, last, completions>>

\* BaseStep.run for the step step_name of the run workflow_id
BaseStep_run(tool, step_name, workflow_id) ==
    IF ~exists(fs, workflow_id)
    THEN Rejected(tool, workflow_id, "not_found")
    ELSE IF validate_inputs(step_name, load(fs, workflow_id)) # {}
    THEN Rejected(tool, workflow_id, "validation_failed")
    ELSE
      LET fs1     == save(fs, workflow_id,
                          start_step(load(fs, workflow_id), step_name,
                                     isoformat(clock)))
          started == load(fs1, workflow_id)
      IN  \E outcome \in execute(step_name, started) :
            IF outcome.raised = None
            THEN
              LET html == IF /\ step_name \in DOMAIN StepDefinitions
                             /\ StepDefinitions[step_name].generates_html
                          THEN "<div class=section/>" ELSE None
                  fs2  == save(fs1, workflow_id,
                               complete_step(started, step_name,
                                             outcome.output_data, html,
                                             isoformat(clock + 1)))
              IN  /\ fs' = fs2
                  /\ clock' = clock + 2
                  /\ last' = CallAt("complete_step",
                                    [step_name     |-> step_name,
                                     output_data   |-> outcome.output_data,
                                     html_fragment |-> html],
                                    None, fs1, clock + 1)
                  /\ completions' = Append(completions, step_name)
                  /\ reply' = [tool |-> tool, workflow_id |-> workflow_id,
                               kind |-> "ok", before |-> fs,
                               next |-> get_next_step_info(load(fs2, workflow_id))]
            ELSE
              LET fs2 == save(fs1, workflow_id,
                              fail_step(started, step_name, outcome.raised,
                                        isoformat(clock + 1)))
              IN  /\ fs' = fs2
                  /\ clock' = clock + 2
                  /\ last' = CallAt("fail_step",
                                    [step_name |-> step_name,
                                     error     |-> outcome.raised],
                                    None, fs1, clock + 1)
                  /\ UNCHANGED completions
                  /\ reply' = [tool |-> tool, workflow_id |-> workflow_id,
                               kind |-> "step_failed", before |-> fs]

\* init_scene_workflow and InitWorkflowStep.run
InitSceneWorkflow ==
    /\ clock < MaxRunClock
    /\ \E log_path \in LogPaths, timestamp \in Timestamps,
          time_window \in TimeWindows, hhmmss \in WallClockSeconds,
          path_exists \in BOOLEAN :
          LET workflow_id == scene_workflow_id(timestamp, hhmmss)
              workflow_def == get_workflow(registry, "scene_analysis")
              params      == [log_path    |-> log_path,
                              timestamp   |-> timestamp,
                              time_window |-> time_window]
              output_data == [workflow_id |-> workflow_id,
                              log_path    |-> log_path,
                              timestamp   |-> timestamp,
                              time_window |-> time_window]
              html        == "<header class=report-header/>"
              fs1 == save(fs, workflow_id,
                          create(workflow_id, "scene_analysis", params,
                                 workflow_def.steps, isoformat(clock)))
              fs2 == save(fs1, workflow_id,
                          start_step(load(fs1, workflow_id), "init_workflow",
                                     isoformat(clock + 1)))
              fs3 == save(fs2, workflow_id,
                          complete_step(load(fs2, workflow_id), "init_workflow",
                                        output_data, html, isoformat(clock + 2)))
          IN  IF ~path_exists
              THEN Rejected("init_scene_workflow", None, "path_missing")
              ELSE IF half(time_window) # None
              THEN \* generate_html raises after execute has created the run
                   /\ fs' = fs1
                   /\ clock' = clock + 1
                   /\ last' = Call("create", [workflow_type |-> "scene_analysis",
                                              params |-> params,
                                              steps |-> workflow_def.steps],
                                     None)
                   /\ completions' = <<>>
                   /\ reply' = [tool |-> "init_scene_workflow",
                                workflow_id |-> workflow_id,
                                kind |-> "init_failed", before |-> fs]
              ELSE /\ fs' = fs3
                   /\ clock' = clock + 3
                   /\ last' = CallAt("complete_step",
                                     [step_name     |-> "init_workflow",
                                      output_data   |-> output_data,
                                      html_fragment |-> html],
                                     None, fs2, clock + 2)
                   /\ completions' = <<"init_workflow">>
                   /\ reply' = [tool |-> "init_scene_workflow",
                                workflow_id |-> workflow_id,
                                kind |-> "ok", before |-> fs,
                                next |-> get_next_step_info(load(fs3, workflow_id))]

\* search_events
SearchEvents ==
    /\ clock < MaxRunClock
    /\ \E workflow_id \in WorkflowIds :
          BaseStep_run("search_events", "search_files", workflow_id)

\* extract_logs
ExtractLogs ==
    /\ clock < MaxRunClock
    /\ \E workflow_id \in WorkflowIds :
          BaseStep_run("extract_logs", "extract_logs", workflow_id)

\* analyze_timeline
AnalyzeTimeline ==
    /\ clock < MaxRunClock
    /\ \E workflow_id \in WorkflowIds :
          BaseStep_run("analyze_timeline", "analyze_timeline", workflow_id)

\* generate_analysis
GenerateAnalysis ==
    /\ clock < MaxRunClock
    /\ \E workflow_id \in WorkflowIds :
          IF ~exists(fs, workflow_id)
          THEN Rejected("generate_analysis", workflow_id, "not_found")
          ELSE
            LET output_data == [analysis_generated |-> "True"]
                html == "<div class=section id=analysis/>"
                fs1  == save(fs, workflow_id,
                             start_step(load(fs, workflow_id),
                                        "generate_analysis", isoformat(clock)))
                fs2  == save(fs1, workflow_id,
                             complete_step(load(fs1, workflow_id),
                                           "generate_analysis", output_data,
                                           html, isoformat(clock + 1)))
            IN  /\ fs' = fs2
                /\ clock' = clock + 2
                /\ last' = CallAt("complete_step",
                                  [step_name     |-> "generate_analysis",
                                   output_data   |-> output_data,
                                   html_fragment |-> html],
                                  None, fs1, clock + 1)
                /\ completions' = Append(completions, "generate_analysis")
                /\ reply' = [tool |-> "generate_analysis",
                             workflow_id |-> workflow_id,
                             kind |-> "ok", before |-> fs,
                             next |-> get_next_step_info(load(fs2, workflow_id))]

\* finalize_report and FinalizeReportStep.run / execute
FinalizeReport ==
    /\ clock < MaxRunClock
    /\ \E workflow_id \in WorkflowIds :
          IF ~exists(fs, workflow_id)
          THEN Rejected("finalize_report", workflow_id, "not_found")
          ELSE
            LET fs1 == save(fs, workflow_id,
                            start_step(load(fs, workflow_id),
                                       "finalize_report", isoformat(clock)))
                started == load(fs1, workflow_id)
            IN  \E built \in ReportBuilder_build(
                                "logs/workflows/" \o workflow_id \o "/report.html") :
                  IF built.raised = None
                  THEN
                    LET output_data ==
                            [report_path     |-> built.output_data.report_path,
                             fragments_count |-> ToString(Len(started.html_fragments))]
                        fs2 == save(fs1, workflow_id,
                                    set_output_path(started,
                                                    output_data.report_path,
                                                    isoformat(clock + 1)))
                        fs3 == save(fs2, workflow_id,
                                    complete_step(load(fs2, workflow_id),
                                                  "finalize_report", output_data,
                                                  None, isoformat(clock + 2)))
                    IN  /\ fs' = fs3
                        /\ clock' = clock + 3
                        /\ last' = CallAt("complete_step",
                                          [step_name     |-> "finalize_report",
                                           output_data   |-> output_data,
                                           html_fragment |-> None],
                                          None, fs2, clock + 2)
                        /\ completions' = Append(completions, "finalize_report")
                        /\ reply' = [tool |-> "finalize_report",
                                     workflow_id |-> workflow_id,
                                     kind |-> "ok", before |-> fs]
                  ELSE
                    LET fs2 == save(fs1, workflow_id,
                                    fail_step(started, "finalize_report",
                                              built.raised, isoformat(clock + 1)))
                    IN  /\ fs' = fs2
                        /\ clock' = clock + 2
                        /\ last' = CallAt("fail_step",
                                          [step_name |-> "finalize_report",
                                           error     |-> built.raised],
                                          None, fs1, clock + 1)
                        /\ UNCHANGED completions
                        /\ reply' = [tool |-> "finalize_report",
                                     workflow_id |-> workflow_id,
                                     kind |-> "step_failed", before |-> fs]

NextRun ==
    /\ \/ InitSceneWorkflow
       \/ SearchEvents
       \/ ExtractLogs
       \/ AnalyzeTimeline
       \/ GenerateAnalysis
       \/ FinalizeReport
    /\ UNCHANGED <<loaded, registry>>

\* the tools, invoked in any order by the caller
SpecRun == Init /\ [][NextRun]_vars

\* The content of a state.json that write_text has opened, and so truncated,
\* and not written in full: json.loads raises on it.
Truncated == [truncated |-> TRUE]

\* the state file of the run holds a document json.loads accepts
loadable(files, workflow_id) ==
    exists(files, workflow_id) /\ files[workflow_id] # Truncated

\* the process dies inside _save, after write_text has opened the file and
\* before it has written all of the text
CrashInSave ==
    /\ clock < MaxClock
    /\ \E op \in {"create", "start_step", "complete_step", "fail_step",
                   "set_global_data", "set_output_path"} :
          /\ op = "create" \/ loadable(fs, RunId)
          /\ fs' = Put(fs, RunId, Truncated)
          /\ last' = Call(op, NoArgs, "crash")
    /\ clock' = clock + 1
    /\ UNCHANGED <<completions, reply, loaded, registry>>

\* load() in a process started after the crash
LoadTruncated ==
    /\ exists(fs, RunId)
    /\ ~loadable(fs, RunId)
    /\ last' = Call("load", NoArgs, "JSONDecodeError")
    /\ UNCHANGED <<fs, clock, completions, reply, loaded, registry>>

\* State Store calls of processes that may die while they save
NextCrash ==
    \/ /\ exists(fs, RunId) => loadable(fs, RunId)
       /\ Next
    \/ /\ exists(fs, RunId)
       /\ ~loadable(fs, RunId)
       /\ Create
       /\ UNCHANGED <<loaded, registry>>
    \/ CrashInSave
    \/ LoadTruncated

SpecCrash == Init /\ [][NextCrash]_vars

\* the definitions a caller registers besides the built-in ones
RegisteredSteps ==
    { StepDefinition(name, name, <<>>, <<>>, order) :
        name \in {"a", "b", "search_files"}, order \in {2, 7} }

RegisteredWorkflows ==
    { WorkflowDefinition(name, steps, EmptyDict) :
        name \in {"scene_analysis", "custom"},
        steps \in {<<"b", "ghost", "a">>, <<"finalize_report", "init_workflow">>} }

\* registry.register_step(step)
RegisterStep ==
    /\ \E step \in RegisteredSteps : registry' = register_step(registry, step)
    /\ UNCHANGED <<fs, clock, last, completions, reply, loaded>>

\* registry.register_workflow(workflow)
RegisterWorkflow ==
    /\ \E workflow \in RegisteredWorkflows :
          registry' = register_workflow(registry, workflow)
    /\ UNCHANGED <<fs, clock, last, completions, reply, loaded>>

NextRegistry ==
    \/ RegisterStep
    \/ RegisterWorkflow

\* registrations on the singleton, in any order
SpecRegistry == Init /\ [][NextRegistry]_vars

\* the processes that call the State Store of the same run
Processes == {"p1", "p2"}

\* a process enters complete_step or set_global_data and loads the context
Load ==
    /\ clock < MaxRaceClock
    /\ exists(fs, RunId)
    /\ \E p \in Processes \ DOMAIN loaded :
          \/ \E step_name \in StepNames, a \in CompleteArgs :
                loaded' = Put(loaded, p,
                              [op      |-> "complete_step",
                               args    |-> [step_name |-> step_name,
                                            output_data |-> a[1],
                                            html_fragment |-> a[2]],
                               context |-> load(fs, RunId)])
          \/ \E key \in GlobalKeys, value \in GlobalValues :
                loaded' = Put(loaded, p,
                              [op      |-> "set_global_data",
                               args    |-> [key |-> key, value |-> value],
                               context |-> load(fs, RunId)])
    /\ UNCHANGED <<fs, clock, last, completions, reply, registry>>

\* the process mutates the context it has loaded and saves it
SaveLoaded ==
    /\ \E p \in DOMAIN loaded :
          LET call == loaded[p]
              now  == isoformat(clock)
              context ==
                  IF call.op = "complete_step"
                  THEN complete_step(call.context, call.args.step_name,
                                     call.args.output_data,
                                     call.args.html_fragment, now)
                  ELSE set_global_data(call.context, call.args.key,
                                       call.args.value, now)
          IN  /\ fs' = save(fs, RunId, context)
              /\ last' = Call(call.op, call.args, None)
              /\ completions' = IF call.op = "complete_step"
                                THEN Append(completions, call.args.step_name)
                                ELSE completions
              /\ loaded' = [q \in (DOMAIN loaded) \ {p} |-> loaded[q]]
    /\ clock' = clock + 1
    /\ UNCHANGED <<reply, registry>>

\* State Store mutations of two processes on one run: nothing in
\* WorkflowState orders the load of one before or after the save of the other
NextRace ==
    \/ /\ Create
       /\ clock < MaxRaceClock
       /\ loaded = EmptyDict
       /\ UNCHANGED <<loaded, registry>>
    \/ Load
    \/ SaveLoaded

SpecRace == Init /\ [][NextRace]_vars

\* State Store calls and tool invocations on the same run, interleaved
NextAll ==
    /\ clock < MaxAllClock
    /\ \/ Next
       \/ NextRun

SpecAll == Init /\ [][NextAll]_vars

\* One run is initialised and driven by State Store calls while workflow
\* definitions are registered on the singleton
NextCatalog ==
    \/ /\ clock < MaxCatalogClock
       /\ \/ ~exists(fs, RunId) /\ InitSceneWorkflow
          \/ StartStep
          \/ CompleteStep
          \/ FailStep
          \/ SetGlobalData
          \/ SetOutputPath
       /\ UNCHANGED <<loaded, registry>>
    \/ RegisterWorkflow

SpecCatalog == Init /\ [][NextCatalog]_vars

\* the step at the cursor of the run, which the report of the last step
\* advises the caller to invoke; None when there is no run or no step left
advised ==
    IF exists(fs, RunId) THEN get_current_step(load(fs, RunId)) ELSE None

\* A caller that initialises a run and then always invokes the tool of the
\* step at the cursor
NextDrive ==
    /\ \/ ~exists(fs, RunId) /\ InitSceneWorkflow
       \/ advised = "init_workflow" /\ InitSceneWorkflow
       \/ advised = "search_files" /\ SearchEvents
       \/ advised = "extract_logs" /\ ExtractLogs
       \/ advised = "analyze_timeline" /\ AnalyzeTimeline
       \/ advised = "generate_analysis" /\ GenerateAnalysis
       \/ advised = "finalize_report" /\ FinalizeReport
    /\ UNCHANGED <<loaded, registry>>

\* the caller keeps invoking: an invocation that would change the state is
\* eventually made
SpecDrive == Init /\ [][NextDrive]_vars /\ WF_vars(NextDrive)

----------------------------------------------------------------------------
(* common/filter_logs.py *)

\* The text of a timestamp is the date it starts with, None when it has none
\* and so no space ("HH:MM:SS.ffffff"), and the time of day that follows, in
\* half seconds after 09:27:50.
Stamp(date, time) == [date |-> date, time |-> time]

\* the dates the texts carry, by the day of the year they fall on; "99-99" is
\* a date the regular expression matches and strptime refuses
Days == [d \in {"10-28", "10-29"} |-> IF d = "10-28" THEN 300 ELSE 301]

\* whether datetime.strptime(text, '%m-%d %H:%M:%S.%f') returns; it raises
\* ValueError otherwise
parses(text) == text.date \in DOMAIN Days

\* datetime.strptime(text, '%m-%d %H:%M:%S.%f').replace(year=...), for a text
\* that parses: the half seconds since the start of the year
strptime(text) == Days[text.date] * 172800 + text.time

\* A line of the log: the filter strings it contains and the first text in it
\* that matches (\d{2}-\d{2}\s+)(\d{2}:\d{2}:\d{2}\.\d+), of date None when
\* nothing matches.
Line(contains, stamp) == [contains |-> contains, stamp |-> stamp]

\* the loop body of filter_logs: whether the line is appended
appended(line, filter_str, start_time, end_time) ==
    IF filter_str \notin line.contains
    THEN FALSE
    ELSE IF line.stamp.date # None
    THEN IF parses(line.stamp)
         THEN start_time <= strptime(line.stamp)
                /\ strptime(line.stamp) <= end_time
         ELSE FALSE
    ELSE TRUE

\* filter_logs with the timestamp parsed before the file is looked for
filter_logs_parses_first(file, filter_str, timestamp, time_window) ==
    IF timestamp.date = None \/ ~parses(timestamp)
    THEN Raised("ValueError")
    ELSE IF ~file.exists
    THEN Raised("FileNotFoundError")
    ELSE LET start_time == strptime(timestamp) - time_window
             end_time   == strptime(timestamp) + time_window
             Keep(line) == appended(line, filter_str, start_time, end_time)
         IN  Returned(SelectSeq(file.lines, Keep))

\* filter_logs: the list it returns or the exception it raises; time_window is
\* in seconds, so that time_window / 2 seconds are time_window half seconds
filter_logs(file, filter_str, timestamp, time_window) ==
    IF ~file.exists
    THEN Raised("FileNotFoundError")
    ELSE IF timestamp.date = None \/ ~parses(timestamp)
    THEN Raised("ValueError")
    ELSE LET start_time == strptime(timestamp) - time_window
             end_time   == strptime(timestamp) + time_window
             Keep(line) == appended(line, filter_str, start_time, end_time)
         IN  Returned(SelectSeq(file.lines, Keep))

\* Inputs of filter_logs
FilterStrs == {"input_focus:", "NOTEXIST"}

TimesOfDay == 0..3

\* the target timestamps: with a date, and a time of day alone
TargetStamps ==
    { Stamp(d, t) : d \in {None, "10-28", "10-29"}, t \in {1, 2} }

\* seconds
Windows == {1, 2}

LogLines ==
    { Line(c, Stamp(d, t)) :
        c \in {{}, {"input_focus:"}},
        d \in {None, "10-28", "99-99"},
        t \in TimesOfDay }

MaxLines == 2

\* the file at file_path: whether it exists and the lines it holds
LogFiles ==
    {[exists |-> FALSE, lines |-> <<>>]}
        \cup { [exists |-> TRUE, lines |-> l] :
                 l \in UNION { [1..n -> LogLines] : n \in 0..MaxLines } }

\* a call of filter_logs, the one call of a behaviour: what it returns depends
\* on its arguments alone
FilterLogs ==
    /\ last.op = "init"
    /\ \E file \in LogFiles, filter_str \in FilterStrs,
          timestamp \in TargetStamps, time_window \in Windows :
          LET result == filter_logs(file, filter_str, timestamp, time_window)
          IN  /\ last' = Call("filter_logs",
                              [file        |-> file,
                               filter_str  |-> filter_str,
                               timestamp   |-> timestamp,
                               time_window |-> time_window],
                              result.raised)
              /\ reply' = [tool |-> "filter_logs",
                           kind |-> IF result.raised = None THEN "ok"
                                                            ELSE "raised",
                           before |-> fs,
                           result |-> result.output_data]
    /\ UNCHANGED <<fs, clock, completions, loaded, registry>>

SpecFilter == Init /\ [][FilterLogs]_vars

----------------------------------------------------------------------------
(* The run under test, before and after the last call *)

\* the persisted context of RunId now
ctx == load(fs, RunId)

\* the persisted context of RunId before the last State Store call
pre == load(last.pre, RunId)

\* the last call was op on an existing run and it returned
Did(op) == last.op = op /\ last.raised = None /\ exists(last.pre, RunId)

\* the reading of the clock that isoformat wrote as s
fromisoformat(s) == CHOOSE n \in 0..99 : isoformat(n) = s

----------------------------------------------------------------------------
(* Claims about the State Store *)

\* C1: after any sequence of State Store operations the persisted cursor
\* satisfies 0 <= current_step_index <= len(steps).
C1_CursorInRange ==
    exists(fs, RunId) =>
        /\ 0 <= ctx.current_step_index
        /\ ctx.current_step_index <= Len(ctx.steps)

\* C2: the cursor of a run never decreases; it changes only by complete_step,
\* which raises it by exactly one; start_step, fail_step, set_global_data and
\* set_output_path leave it unchanged.
C2_CursorOnlyAdvances ==
    [][ (exists(fs, RunId) /\ exists(fs', RunId)) =>
          LET old == load(fs, RunId).current_step_index
              new == load(fs', RunId).current_step_index
          IN  /\ new >= old
              /\ last'.op = "complete_step" => new = old + 1
              /\ last'.op \in {"start_step", "fail_step", "set_global_data",
                               "set_output_path"} => new = old
              /\ new # old => last'.op = "complete_step" ]_vars

\* C3: across any sequence of step invocations on one run, progression is
\* exactly-once and in list order: each step of the run's step list is
\* completed at most once, and whenever the cursor is i the steps whose Step
\* Result is completed are exactly steps[0..i).
C3_ExactlyOnceInOrder ==
    exists(fs, RunId) =>
        /\ \A i, j \in 1..Len(completions) :
              i # j => completions[i] # completions[j]
        /\ ctx.current_step_index <= Len(ctx.steps)
        /\ { n \in DOMAIN ctx.step_results :
                ctx.step_results[n].status = "completed" }
             = { ctx.steps[i] : i \in 1..ctx.current_step_index }

\* C4: fail_step(name, error) on an existing run sets the run status to
\* failed, sets the named Step Result to failed with the error message and a
\* completion timestamp, and leaves current_step_index unchanged.
C4_FailStepParks ==
    Did("fail_step") =>
        LET name   == last.args.step_name
            result == ctx.step_results[name]
        IN  /\ ctx.status = "FAILED"
            /\ fs[RunId].status = "failed"
            /\ result.status = "failed"
            /\ result.error = last.args.error
            /\ result.completed_at = isoformat(last.at)
            /\ ctx.current_step_index = pre.current_step_index

\* C4 witness: fail_step has failed the step at the cursor of a run that had
\* already advanced.
C4_Witness ==
    /\ Did("fail_step")
    /\ pre.current_step_index = 1
    /\ pre.status = "RUNNING"
    /\ Len(pre.steps) = 2
    /\ last.args.step_name = pre.steps[2]

\* C5: after a step B that is not the last step has failed and is then re-run
\* successfully (start_step followed by complete_step), the run status is
\* running again, the cursor has advanced by exactly one past B, and
\* global_data holds the earlier outputs together with B's output.
C5_RetryResumesRun ==
    [][ ( /\ Did("start_step")
          /\ pre.status = "FAILED"
          /\ pre.current_step_index + 1 < Len(pre.steps)
          /\ last.args.step_name = pre.steps[pre.current_step_index + 1]
          /\ last.args.step_name \in DOMAIN pre.step_results
          /\ pre.step_results[last.args.step_name].status = "failed"
          /\ last'.op = "complete_step"
          /\ last'.args.step_name = last.args.step_name )
        => LET after == load(fs', RunId)
           IN  /\ after.status = "RUNNING"
               /\ after.current_step_index = pre.current_step_index + 1
               /\ \A k \in DOMAIN pre.global_data : k \in DOMAIN after.global_data
               /\ \A k \in DOMAIN last'.args.output_data :
                     /\ k \in DOMAIN after.global_data
                     /\ after.global_data[k] = last'.args.output_data[k] ]_vars

\* C6: once every step of a run with n steps has been completed in list order
\* (possibly after failures that were retried), current_step_index equals n
\* and the run status is completed.
C6_AllCompleted ==
    (Did("complete_step") /\ completions = pre.steps) =>
        /\ ctx.current_step_index = Len(ctx.steps)
        /\ ctx.status = "COMPLETED"
        /\ fs[RunId].status = "completed"

\* C6 witness: the last step of a two-step run has just been completed, after
\* the run had been failed and the failing step retried.
C6_Witness ==
    /\ Did("complete_step")
    /\ completions = pre.steps
    /\ Len(pre.steps) = 2
    /\ pre.status = "FAILED"

\* C7: create on a run_id whose state is already persisted fails with an
\* AlreadyExists error and leaves the persisted Execution Context unchanged.
C7_CreateRefusesExisting ==
    (last.op = "create" /\ exists(last.pre, RunId)) =>
        /\ last.raised = "AlreadyExists"
        /\ fs = last.pre

\* C8: create on a run_id with no persisted state persists a Context with
\* status running, cursor 0, the given params and steps, empty step_results,
\* global_data and html_fragments and no output_path; load() returns exactly
\* that Context and exists() is true.
C8_CreatePersistsFresh ==
    (last.op = "create" /\ ~exists(last.pre, RunId)) =>
        /\ last.raised = None
        /\ exists(fs, RunId)
        /\ fs[RunId].status = "running"
        /\ ctx.status = "RUNNING"
        /\ ctx.current_step_index = 0
        /\ ctx.params = last.args.params
        /\ ctx.steps = last.args.steps
        /\ ctx.workflow_type = last.args.workflow_type
        /\ ctx.workflow_id = RunId
        /\ ctx.step_results = EmptyDict
        /\ ctx.global_data = EmptyDict
        /\ ctx.html_fragments = <<>>
        /\ ctx.output_path = None
        /\ ctx.created_at = isoformat(last.at)
        /\ ctx.updated_at = isoformat(last.at)

\* C8 witness: create has just written the state of a run that had none.
C8_Witness ==
    /\ last.op = "create"
    /\ ~exists(last.pre, RunId)
    /\ exists(fs, RunId)
    /\ Len(ctx.steps) = 2

\* C9: after complete_step(name, output_data, artifact), load() shows
\* global_data equal to the previous global_data overridden by output_data;
\* repeating complete_step with the identical output_data leaves global_data
\* unchanged.
C9_MergeOverrides ==
    [][ (last'.op = "complete_step" /\ last'.raised = None) =>
          LET old == load(fs, RunId).global_data
              new == load(fs', RunId).global_data
              out == last'.args.output_data
          IN  /\ DOMAIN new = (DOMAIN old) \cup (DOMAIN out)
              /\ \A k \in DOMAIN out : new[k] = out[k]
              /\ \A k \in (DOMAIN old) \ (DOMAIN out) : new[k] = old[k]
              /\ ( /\ Did("complete_step")
                   /\ last.args.output_data = out ) => new = old ]_vars

\* C9 witness: complete_step has overwritten one key of global_data, added
\* another and kept a third.
C9_Witness ==
    /\ Did("complete_step")
    /\ \E k \in DOMAIN pre.global_data :
          /\ k \in DOMAIN last.args.output_data
          /\ pre.global_data[k] # last.args.output_data[k]
    /\ \E k \in DOMAIN last.args.output_data : k \notin DOMAIN pre.global_data
    /\ \E k \in DOMAIN pre.global_data : k \notin DOMAIN last.args.output_data

\* C10: start_step(name) called twice in succession leaves exactly one Step
\* Result for name, with status running, a start timestamp not earlier than
\* the first call's, and no output data, completion timestamp, artifact
\* reference or error of the earlier record; neither call moves the cursor.
C10_StartStepTwice ==
    [][ ( /\ Did("start_step")
          /\ last'.op = "start_step"
          /\ last'.args.step_name = last.args.step_name )
        => LET name   == last.args.step_name
               first  == load(fs, RunId)
               second == load(fs', RunId)
               result == second.step_results[name]
           IN  /\ DOMAIN second.step_results = DOMAIN first.step_results
               /\ \A n \in DOMAIN second.step_results :
                     n # name => second.step_results[n] = first.step_results[n]
               /\ result.step_name = name
               /\ result.status = "running"
               /\ fromisoformat(result.started_at)
                     >= fromisoformat(first.step_results[name].started_at)
               /\ result.output_data = EmptyDict
               /\ result.completed_at = None
               /\ result.html_fragment_path = None
               /\ result.error = None
               /\ DOMAIN result = DOMAIN StepResult(name, "RUNNING", None)
               /\ first.current_step_index = pre.current_step_index
               /\ second.current_step_index = pre.current_step_index ]_vars

\* C10 witness: start_step has been called on a step whose record the
\* immediately preceding start_step left running, in a run that had failed.
C10_Witness ==
    /\ Did("start_step")
    /\ last.args.step_name \in DOMAIN pre.step_results
    /\ pre.step_results[last.args.step_name].status = "running"
    /\ pre.step_results[last.args.step_name].started_at = pre.updated_at
    /\ ctx.status = "FAILED"

----------------------------------------------------------------------------
(* Claims about the views, the serialisation and the validation *)

\* C11: in every state where the run status is completed, get_next_step_info
\* returns the completion view (completed is true, with the output location)
\* and holds no current step and no remaining steps.
C11_CompletedView ==
    (exists(fs, RunId) /\ ctx.status = "COMPLETED") =>
        LET info == get_next_step_info(ctx)
        IN  /\ "completed" \in DOMAIN info
            /\ info.completed = TRUE
            /\ "output_path" \in DOMAIN info
            /\ info.output_path = ctx.output_path
            /\ "current_step" \notin DOMAIN info
            /\ "remaining_steps" \notin DOMAIN info

\* C11 witness: a completed run whose output location has been set.
C11_Witness ==
    /\ exists(fs, RunId)
    /\ ctx.status = "COMPLETED"
    /\ ctx.output_path \in OutputPaths
    /\ get_next_step_info(ctx).output_path = ctx.output_path

\* the context the last State Store call built in memory and passed to _save
saved ==
    LET now == isoformat(last.at)
    IN  CASE last.op = "create" ->
               create(RunId, last.args.workflow_type, last.args.params,
                      last.args.steps, now)
          [] last.op = "start_step" ->
               start_step(pre, last.args.step_name, now)
          [] last.op = "complete_step" ->
               complete_step(pre, last.args.step_name, last.args.output_data,
                             last.args.html_fragment, now)
          [] last.op = "fail_step" ->
               fail_step(pre, last.args.step_name, last.args.error, now)
          [] last.op = "set_global_data" ->
               set_global_data(pre, last.args.key, last.args.value, now)
          [] last.op = "set_output_path" ->
               set_output_path(pre, last.args.path, now)

\* the last State Store call wrote a context
Wrote ==
    /\ last.op # "init"
    /\ last.raised = None
    /\ last.op # "create" => exists(last.pre, RunId)

step_of(tool) ==
    CHOOSE n \in DOMAIN StepDefinitions : StepDefinitions[n].mcp_tool_name = tool

\* the declared input keys of a step that are in neither global_data nor params
absent(step_name, context) ==
    { k \in { StepDefinitions[step_name].inputs[i] :
                 i \in 1..Len(StepDefinitions[step_name].inputs) } :
        k \notin DOMAIN context.global_data /\ k \notin DOMAIN context.params }

\* the context of the run the last tool invocation named, before it
before == load(reply.before, reply.workflow_id)

\* the last invocation was BaseStep.run on an existing run
RanBaseStep ==
    /\ reply.tool \in {"search_events", "extract_logs", "analyze_timeline"}
    /\ exists(reply.before, reply.workflow_id)

\* C13: when a step invocation is rejected by input validation, a declared
\* input key being in neither params nor global_data, the persisted Execution
\* Context is left as it was: no start_step, cursor, status and Step Results
\* unchanged.
C13_RejectionWritesNothing ==
    (RanBaseStep /\ reply.kind = "validation_failed"
                 /\ absent(step_of(reply.tool), before) # {}) =>
        /\ fs = reply.before
        /\ load(fs, reply.workflow_id) = before
        /\ step_of(reply.tool) \notin DOMAIN before.step_results
              => step_of(reply.tool) \notin
                     DOMAIN load(fs, reply.workflow_id).step_results

\* C13 witness: analyze_timeline has been rejected on a run that search_files
\* had advanced.
C13_Witness ==
    /\ RanBaseStep
    /\ reply.tool = "analyze_timeline"
    /\ reply.kind = "validation_failed"
    /\ "file_logs_map" \in absent("analyze_timeline", before)
    /\ before.current_step_index = 2
    /\ fs = reply.before

\* C14: input validation of a step invocation fails exactly when some declared
\* input key is in neither global_data nor params, whatever the values stored
\* under the keys that are present.
C14_ValidationByPresence ==
    RanBaseStep =>
        (reply.kind = "validation_failed"
            <=> absent(step_of(reply.tool), before) # {})

----------------------------------------------------------------------------
(* Claims about failures *)

\* the tools that run a step of an existing run
StepTools ==
    {"search_events", "extract_logs", "analyze_timeline", "generate_analysis",
     "finalize_report"}

\* C15: operations on a run_id with no persisted state never create or mutate
\* state: a step invocation returns a not-found failure without calling
\* start_step, start_step / complete_step / fail_step raise a not-found error,
\* and exists() is still false afterwards.
C15_MissingRunUntouched ==
    [][ /\ ( /\ last' # last
             /\ last'.pre = fs
             /\ last'.op \in {"start_step", "complete_step", "fail_step"}
             /\ ~exists(fs, RunId) )
           => /\ last'.raised = "ValueError"
              /\ fs' = fs
              /\ ~exists(fs', RunId)
        /\ ( /\ reply' # reply
             /\ reply'.tool \in StepTools
             /\ ~exists(fs, reply'.workflow_id) )
           => /\ reply'.kind = "not_found"
              /\ last' = last
              /\ fs' = fs
              /\ ~exists(fs', reply'.workflow_id) ]_vars

\* C15 witness: start_step has raised and finalize_report has been refused on
\* a run that has no state.
C15_Witness ==
    /\ last.op = "start_step"
    /\ last.raised = "ValueError"
    /\ reply.tool = "finalize_report"
    /\ reply.kind = "not_found"
    /\ ~exists(fs, RunId)

\* C16: for every step invocation, if the step-specific logic or the artifact
\* rendering raises after the run's state exists, the caller still gets a
\* result, the step's Step Result is recorded as failed with the exception
\* message, the run status becomes failed and the cursor is unchanged.
C16_ExceptionRecorded ==
    (reply.kind \in {"step_failed", "init_failed"}
        /\ exists(fs, reply.workflow_id)) =>
        LET context   == load(fs, reply.workflow_id)
            step_name == step_of(reply.tool)
        IN  /\ last.op = "fail_step"
            /\ last.args.step_name = step_name
            /\ context.status = "FAILED"
            /\ step_name \in DOMAIN context.step_results
            /\ context.step_results[step_name].status = "failed"
            /\ context.step_results[step_name].error = last.args.error
            /\ exists(reply.before, reply.workflow_id)
                  => context.current_step_index = before.current_step_index

----------------------------------------------------------------------------
(* Claims about terminal runs and the accumulated collections *)

\* the fields of a context a finished run must keep
frozen(context) ==
    <<context.status, context.current_step_index, context.step_results,
      context.global_data, context.html_fragments>>

\* C17: once a run's status is completed or cancelled no further step is
\* accepted: every later step invocation and every later start_step,
\* complete_step or fail_step call is rejected and leaves status, cursor,
\* step_results, global_data and html_fragments unchanged.
C17_TerminalRunFrozen ==
    [][ ( /\ exists(fs, RunId)
          /\ load(fs, RunId).status \in {"COMPLETED", "CANCELLED"}
          /\ \/ /\ last' # last
                /\ last'.op \in {"start_step", "complete_step", "fail_step"}
             \/ /\ reply' # reply
                /\ reply'.tool \in StepTools
                /\ reply'.workflow_id = RunId )
        => /\ exists(fs', RunId)
           /\ frozen(load(fs', RunId)) = frozen(load(fs, RunId))
           /\ last' # last => last'.raised # None
           /\ reply' # reply => reply'.kind \notin {"ok", "step_failed"} ]_vars

\* C18: in every reachable persisted state the run status is completed if and
\* only if current_step_index equals len(steps).
C18_CompletedIffCursorAtEnd ==
    exists(fs, RunId) =>
        (ctx.status = "COMPLETED" <=> ctx.current_step_index = Len(ctx.steps))

\* the entries of a fragment list that the step step_name produced
entries_of(fragments, workflow_id, step_name) ==
    { i \in 1..Len(fragments) :
        fragments[i] = fragment_path(workflow_id, i, step_name) }

\* C19: html_fragments is append-only and holds one entry per
\* artifact-producing step: every step invocation keeps the previous list as
\* a prefix, complete_step with an artifact appends exactly one entry, also
\* recorded on that step's result, and no step has more than one entry.
C19_OneFragmentPerStep ==
    [][ ( /\ reply' # reply
          /\ reply'.tool \in StepTools
          /\ exists(fs, reply'.workflow_id)
          /\ exists(fs', reply'.workflow_id) )
        => LET id  == reply'.workflow_id
               old == load(fs, id).html_fragments
               new == load(fs', id).html_fragments
           IN  /\ Len(new) >= Len(old)
               /\ SubSeq(new, 1, Len(old)) = old
               /\ Len(new) <= Len(old) + 1
               /\ ( /\ reply'.kind = "ok"
                    /\ TruthyStr(last'.args.html_fragment) )
                  => /\ Len(new) = Len(old) + 1
                     /\ load(fs', id).step_results[last'.args.step_name]
                            .html_fragment_path = new[Len(new)]
               /\ \A n \in DOMAIN StepDefinitions :
                     Cardinality(entries_of(new, id, n)) <= 1 ]_vars

\* C20: global_data only accumulates: every key present before an operation
\* on an existing run is still present after it.
C20_GlobalDataKeysKept ==
    [][ (exists(fs, RunId) /\ exists(fs', RunId)) =>
          DOMAIN load(fs, RunId).global_data
              \subseteq DOMAIN load(fs', RunId).global_data ]_vars

----------------------------------------------------------------------------
(* Claims about the output path, crashes and concurrent invocations *)

\* C21: in every reachable persisted state output_path is absent unless the
\* run has finished: only the finalize_report step sets it, and output_path
\* being set implies that the run status is completed.
C21_OutputPathOnlyWhenFinished ==
    [][ exists(fs', RunId) =>
          LET new == load(fs', RunId)
              old == IF exists(fs, RunId) THEN load(fs, RunId).output_path
                                          ELSE None
          IN  /\ new.output_path # None => new.status = "COMPLETED"
              /\ (new.output_path # None /\ new.output_path # old)
                    => reply'.tool = "finalize_report" ]_vars

\* C22: writing the state document is all-or-nothing: if the process crashes
\* during a State Store operation the persisted document is the complete one
\* from before or after the operation, never an empty or partial one, so a
\* later load() succeeds.
C22_SaveAllOrNothing ==
    /\ exists(fs, RunId) => loadable(fs, RunId)
    /\ last.raised # "JSONDecodeError"

\* C23: State Store mutations are safe under concurrent invocations on the
\* same run_id: load-mutate-save is atomic, so no cursor advance, Step Result
\* update or global_data merge of another invocation is lost by a mutation.
C23_NoLostUpdate ==
    [][ ( /\ last' # last
          /\ last'.raised = None
          /\ last'.op \in {"complete_step", "set_global_data"}
          /\ exists(fs, RunId) )
        => LET old == load(fs, RunId)
               new == load(fs', RunId)
           IN  /\ last'.op = "complete_step"
                     => new.current_step_index = old.current_step_index + 1
               /\ last'.op = "set_global_data"
                     => new.current_step_index = old.current_step_index
               /\ DOMAIN old.global_data \subseteq DOMAIN new.global_data
               /\ \A n \in DOMAIN old.step_results :
                     /\ n \in DOMAIN new.step_results
                     /\ (last'.op = "complete_step" => n # last'.args.step_name)
                           => new.step_results[n] = old.step_results[n] ]_vars

----------------------------------------------------------------------------
(* Claims about the reports *)

\* the report the last tool invocation returned, which was a success
report ==
    CASE reply.tool = "generate_analysis" -> generate_analysis_result
      [] reply.tool = "finalize_report"   -> finalize_report_result
      [] OTHER                            -> format_result(reply.next)

\* C24: every step invocation that completes its step returns a report that
\* holds either the terminal completion message, when that step was the last
\* one, or the identity of the next step to invoke, steps[current_step_index]
\* after the advance; also when the step was a retry of a failed step.
C24_ReportNamesNextStep ==
    (reply.kind = "ok") =>
        LET context == load(fs, reply.workflow_id)
            index   == context.current_step_index
        IN  IF index >= Len(context.steps)
            THEN report.terminal
            ELSE /\ ~report.terminal
                 /\ report.next_step = context.steps[index + 1]

----------------------------------------------------------------------------
(* Claims about the registry *)

\* the step identities, in the order of str
Identities ==
    <<"a", "analyze_timeline", "b", "extract_logs", "finalize_report",
      "generate_analysis", "init_workflow", "search_files">>

\* the place of an identity in that order
rank(name) == CHOOSE i \in 1..Len(Identities) : Identities[i] = name

\* C26: list_steps() returns all registered step definitions sorted by
\* execution order, steps of equal order sorted by identity, so that the
\* result does not depend on the order of registration.
C26_ListStepsByOrderThenIdentity ==
    LET listed == list_steps(registry)
    IN  /\ Len(listed) = Cardinality(DOMAIN registry.steps.at)
        /\ \A name \in DOMAIN registry.steps.at :
              \E i \in 1..Len(listed) : listed[i] = registry.steps.at[name]
        /\ \A i, j \in 1..Len(listed) :
              i < j =>
                \/ listed[i].order < listed[j].order
                \/ /\ listed[i].order = listed[j].order
                   /\ rank(listed[i].name) < rank(listed[j].name)

\* C27: register_step and register_workflow insert or replace by identity and
\* are idempotent: registering a definition twice leaves the catalog as after
\* once, get then returns the definition and no other identity's entry
\* changes; get_step and get_workflow return None for an unknown identity.
C27_RegisterReplacesByIdentity ==
    /\ \A step \in RegisteredSteps :
          LET once == register_step(registry, step)
          IN  /\ register_step(once, step) = once
              /\ get_step(once, step.name) = step
              /\ DOMAIN once.steps.at = DOMAIN registry.steps.at \cup {step.name}
              /\ \A name \in DOMAIN registry.steps.at \ {step.name} :
                    get_step(once, name) = get_step(registry, name)
              /\ once.workflows = registry.workflows
    /\ \A workflow \in RegisteredWorkflows :
          LET once == register_workflow(registry, workflow)
          IN  /\ register_workflow(once, workflow) = once
              /\ get_workflow(once, workflow.name) = workflow
              /\ DOMAIN once.workflows
                    = DOMAIN registry.workflows \cup {workflow.name}
              /\ \A name \in DOMAIN registry.workflows \ {workflow.name} :
                    get_workflow(once, name) = get_workflow(registry, name)
              /\ once.steps = registry.steps
    /\ \A step \in RegisteredSteps :
          step.name \in DOMAIN registry.steps.at =>
              \/ get_step(registry, step.name) \in RegisteredSteps
              \/ get_step(registry, step.name) = StepDefinitions[step.name]
    /\ get_step(registry, "ghost") = NoDefinition
    /\ get_workflow(registry, "ghost") = NoDefinition

\* C27 witness: a built-in step definition has been replaced and a new one
\* inserted, and a workflow has been replaced.
C27_Witness ==
    /\ get_step(registry, "search_files").order = 7
    /\ "a" \in DOMAIN registry.steps.at
    /\ get_step(registry, "a").order = 2
    /\ get_workflow(registry, "scene_analysis").steps = <<"b", "ghost", "a">>
    /\ Len(registry.steps.keys) = 7

\* the names of a sequence of definitions
names_of(definitions) == [i \in 1..Len(definitions) |-> definitions[i].name]

\* C28: get_workflow_steps(workflow_id) returns the step definitions of the
\* workflow's step identities in the workflow's list order, omitting exactly
\* the identities that do not resolve, and an empty list for an unknown
\* workflow.
C28_WorkflowStepsInListOrder ==
    /\ get_workflow_steps(registry, "ghost") = <<>>
    /\ \A name \in DOMAIN registry.workflows :
          LET listed   == get_workflow_steps(registry, name)
              Resolves(step_name) == step_name \in DOMAIN registry.steps.at
          IN  /\ names_of(listed)
                    = SelectSeq(registry.workflows[name].steps, Resolves)
              /\ \A i \in 1..Len(listed) :
                    listed[i] = registry.steps.at[listed[i].name]

\* C28 witness: a workflow whose second step does not resolve and whose
\* resolved steps are listed against their execution order.
C28_Witness ==
    /\ "custom" \in DOMAIN registry.workflows
    /\ registry.workflows["custom"].steps = <<"b", "ghost", "a">>
    /\ {"a", "b"} \subseteq DOMAIN registry.steps.at
    /\ names_of(get_workflow_steps(registry, "custom")) = <<"b", "a">>
    /\ get_step(registry, "b").order > get_step(registry, "a").order

----------------------------------------------------------------------------
(* Claims about the initialisation *)

\* C29: the initializing step checks that the source path exists before it
\* creates any state: when the path does not exist init_scene_workflow returns
\* a failure and no state document is created for any run_id.
C29_MissingPathCreatesNothing ==
    [][ (reply' # reply /\ reply'.tool = "init_scene_workflow"
                        /\ reply'.kind = "path_missing")
        => /\ fs' = fs
           /\ DOMAIN fs' = DOMAIN fs
           /\ last' = last
           /\ clock' = clock ]_vars

\* C29 witness: init_scene_workflow has refused a missing path while no run
\* exists.
C29_Witness ==
    /\ reply.tool = "init_scene_workflow"
    /\ reply.kind = "path_missing"
    /\ fs = EmptyDict

\* C30: every initialization assigns a run_id that is unique among all runs:
\* initializing a new run never replaces or resets the persisted state of an
\* existing run, also when two initializations use the same timestamp within
\* the same clock second.
C30_FreshRunId ==
    [][ (reply'.tool = "init_scene_workflow"
            /\ reply'.kind \in {"ok", "init_failed"} /\ fs' # fs)
        => /\ ~exists(fs, reply'.workflow_id)
           /\ \A id \in DOMAIN fs : exists(fs', id) /\ fs'[id] = fs[id] ]_vars

----------------------------------------------------------------------------
(* Claims about the Step Results *)

\* the Step Result a context holds for a step, as the set of at most one
\* record
result_of(context, step_name) ==
    { context.step_results[n] : n \in DOMAIN context.step_results \cap {step_name} }

\* C31: every step invocation on an existing run, finalize_report and the
\* generate_analysis tool included, validates the declared inputs before
\* start_step: when a declared input of the step is in neither global_data nor
\* params the invocation is rejected and leaves the step's Step Result as it
\* was, never running, completed or failed by that invocation.
C31_ValidationBeforeStart ==
    (reply.tool \in StepTools
        /\ exists(reply.before, reply.workflow_id)
        /\ absent(step_of(reply.tool), before) # {}) =>
        /\ reply.kind = "validation_failed"
        /\ result_of(load(fs, reply.workflow_id), step_of(reply.tool))
              = result_of(before, step_of(reply.tool))

\* the status of the Step Result a context holds for a step
status_of(context, step_name) ==
    IF step_name \in DOMAIN context.step_results
    THEN context.step_results[step_name].status
    ELSE "not-started"

\* C32: each Step Result follows not-started -> running -> {completed |
\* failed}: it becomes completed or failed only from running, and once
\* completed or failed it changes status only through a new start_step for the
\* same step, so that a completed Step Result is not afterwards set to failed.
C32_StepResultLifecycle ==
    (last.op \in {"start_step", "complete_step", "fail_step"}
        /\ last.raised = None /\ exists(last.pre, RunId)) =>
        \A n \in DOMAIN ctx.step_results :
            LET old == status_of(pre, n)
                new == status_of(ctx, n)
            IN  old # new =>
                  /\ new \in {"completed", "failed"} => old = "running"
                  /\ old \in {"completed", "failed"}
                        => last.op = "start_step" /\ last.args.step_name = n

\* the State Store operations that name a step
StepOps == {"start_step", "complete_step", "fail_step"}

\* C33: start_step(name), complete_step(name, ...) and fail_step(name, ...)
\* change the Step Result of the named step only: the Step Result of every
\* other step is unchanged and none is deleted, so a stale running entry stays
\* running until an operation names its step; set_global_data and
\* set_output_path, which name no step, change no Step Result.
C33_OnlyNamedStepResult ==
    (last.op \in StepOps \cup {"set_global_data", "set_output_path"}
        /\ last.raised = None /\ exists(last.pre, RunId)) =>
        /\ DOMAIN pre.step_results \subseteq DOMAIN ctx.step_results
        /\ \A n \in DOMAIN pre.step_results :
              (last.op \in StepOps => n # last.args.step_name)
                  => ctx.step_results[n] = pre.step_results[n]
        /\ \A n \in DOMAIN ctx.step_results \ DOMAIN pre.step_results :
              last.op \in StepOps /\ n = last.args.step_name

\* C33 witness: B has been completed while A, started before and never
\* finished, is still running as it was.
C33_Witness ==
    /\ Did("complete_step")
    /\ last.args.step_name = "B"
    /\ "A" \in DOMAIN pre.step_results
    /\ pre.step_results["A"].status = "running"
    /\ ctx.step_results["A"] = pre.step_results["A"]
    /\ ctx.step_results["B"].status = "completed"

----------------------------------------------------------------------------
(* Claims about the fields of a run that are fixed at creation *)

\* the fields of a persisted state document that creation fixes
fixed(data) ==
    <<data.workflow_id, data.workflow_type, data.created_at, data.params,
      data.steps>>

\* C34: after creation, params, steps, run_id, workflow_type and created_at of
\* a run are never changed by start_step, complete_step, fail_step,
\* set_global_data or set_output_path, and a later registration in the
\* Definition Catalog does not change the steps list of an existing run.
C34_CreationFieldsFixed ==
    [][ /\ ( /\ last' # last
             /\ last'.op \in StepOps \cup {"set_global_data", "set_output_path"}
             /\ exists(last'.pre, RunId) )
           => /\ exists(fs', RunId)
              /\ fixed(fs'[RunId]) = fixed(last'.pre[RunId])
        /\ registry' # registry => fs' = fs ]_vars

\* C34 witness: a step has been started on a run that still lists the six
\* built-in steps while the catalog's scene_analysis workflow lists others.
C34_Witness ==
    /\ Did("start_step")
    /\ fs[RunId].steps = DefaultSteps
    /\ fixed(fs[RunId]) = fixed(last.pre[RunId])
    /\ get_workflow(registry, "scene_analysis").steps # DefaultSteps

----------------------------------------------------------------------------
(* Claims about progress *)

\* C35: progress is always possible on the built-in workflow: for a run
\* created by a successful initialisation, if the caller keeps invoking the
\* step advised at the cursor and no step logic raises, the run eventually
\* reaches status completed with current_step_index = 6, whatever values the
\* steps produce. (A run still going when the clock reads MaxRunClock, after
\* which no tool is invoked, is not held against the claim.)
C35_ProgressAlwaysPossible ==
    [] ( (reply.tool = "init_scene_workflow" /\ reply.kind = "ok")
            => <> ( \/ /\ exists(fs, RunId)
                       /\ ctx.status = "COMPLETED"
                       /\ ctx.current_step_index = 6
                    \/ reply.kind = "step_failed"
                    \/ clock >= MaxRunClock ) )

----------------------------------------------------------------------------
(* Claims about the built-in workflow *)

\* the catalog still holds the built-in definitions of scene_analysis and of
\* its steps as _init_default_definitions registered them
builtin_kept ==
    /\ get_workflow(registry, "scene_analysis")
          = get_workflow(DefaultRegistry, "scene_analysis")
    /\ \A n \in DOMAIN DefaultRegistry.steps.at :
          get_step(registry, n) = get_step(DefaultRegistry, n)

\* the keys a sequence of keys holds
keys_of(keys) == { keys[i] : i \in 1..Len(keys) }

\* C36: the built-in scene_analysis workflow lists exactly the six steps
\* init_workflow, search_files, extract_logs, analyze_timeline,
\* generate_analysis, finalize_report in that order, each registered with a
\* strictly increasing execution order, and every declared input key of a step
\* is a parameter of the workflow's schema or a declared output key of a step
\* earlier in the list.
C36_BuiltinWorkflow ==
    builtin_kept =>
        LET workflow == get_workflow(registry, "scene_analysis")
            steps    == get_workflow_steps(registry, "scene_analysis")
            earlier(i) == UNION { keys_of(steps[j].outputs) : j \in 1..(i - 1) }
        IN  /\ workflow.steps =
                  <<"init_workflow", "search_files", "extract_logs",
                    "analyze_timeline", "generate_analysis", "finalize_report">>
            /\ names_of(steps) = workflow.steps
            /\ \A i \in 1..(Len(steps) - 1) : steps[i].order < steps[i + 1].order
            /\ \A i \in 1..Len(steps) :
                  keys_of(steps[i].inputs)
                      \subseteq DOMAIN workflow.params \cup earlier(i)

\* C36 witness: other definitions have been registered and the six built-in
\* steps, extract_logs with its three inputs among them, are as they were.
C36_Witness ==
    /\ builtin_kept
    /\ "custom" \in DOMAIN registry.workflows
    /\ "a" \in DOMAIN registry.steps.at
    /\ Len(get_workflow_steps(registry, "scene_analysis")) = 6
    /\ get_step(registry, "extract_logs").inputs
          = <<"events_files", "timestamp", "time_window">>

----------------------------------------------------------------------------
(* Claims about filter_logs *)

\* the arguments of the last call of filter_logs
filter_call == last.args

\* the time of day of a line lies within time_window / 2 seconds of the
\* target's; the dates are compared too when the target has one
within(line, target, time_window) ==
    /\ parses(line.stamp)
    /\ IF target.date = None
       THEN /\ target.time - time_window <= line.stamp.time
            /\ line.stamp.time <= target.time + time_window
       ELSE /\ parses(target)
            /\ strptime(target) - time_window <= strptime(line.stamp)
            /\ strptime(line.stamp) <= strptime(target) + time_window

\* C37: filter_logs accepts a target timestamp given as a time of day
\* (HH:MM:SS.ffffff) and returns, in file order, exactly the lines that
\* contain filter_str and whose timestamp lies within time_window / 2 seconds
\* before or after the target, bounds inclusive; every returned line contains
\* filter_str, and a filter string that occurs in no line yields an empty
\* list.
C37_FilterByKeywordAndWindow ==
    (last.op = "filter_logs" /\ filter_call.file.exists) =>
        LET Expected(line) ==
                /\ filter_call.filter_str \in line.contains
                /\ within(line, filter_call.timestamp, filter_call.time_window)
        IN  /\ last.raised = None
            /\ reply.result = SelectSeq(filter_call.file.lines, Expected)
            /\ \A i \in 1..Len(reply.result) :
                  filter_call.filter_str \in reply.result[i].contains
            /\ (\A i \in 1..Len(filter_call.file.lines) :
                   filter_call.filter_str \notin filter_call.file.lines[i].contains)
                  => reply.result = <<>>

\* C38: filter_logs raises FileNotFoundError whenever the log file does not
\* exist, for every filter string and every timestamp argument, the file
\* check coming before the parsing of the timestamp, and returns no result.
C38_MissingFileRaises ==
    (last.op = "filter_logs" /\ ~filter_call.file.exists) =>
        /\ last.raised = "FileNotFoundError"
        /\ reply.kind = "raised"
        /\ reply.result = <<>>

\* C38 witness: filter_logs has raised FileNotFoundError for a timestamp that
\* it would have refused, a time of day alone.
C38_Witness ==
    /\ last.op = "filter_logs"
    /\ ~filter_call.file.exists
    /\ filter_call.timestamp.date = None
    /\ filter_call.filter_str = "NOTEXIST"
    /\ last.raised = "FileNotFoundError"

====
